---- MODULE Spec2Model ----
(***************************************************************************)
(* A model of analyzer.py: the financial statement analyzer.               *)
(*                                                                         *)
(* main() settles a file name, analyze_file() reads the text and runs      *)
(* detect_scale, find_by_aliases, extract_all_numbers, compute_ratios,     *)
(* flag_anomalies and write_reports on it, in that order.  Texts are       *)
(* strings, numbers are Python floats (IEEE-754 binary64, computed         *)
(* exactly), dictionaries keep their insertion order.                      *)
(***************************************************************************)
EXTENDS Integers, Sequences, FiniteSets, TLC

VARIABLES
    pc,          \* the position in main() / analyze_file()
    fname,       \* main's fname, analyze_file's path
    read_ok,     \* whether the whole text of the file has been read
    text,        \* analyze_file's text, as its lines
    scale,       \* analyze_file's scale
    fin,         \* analyze_file's fin: <<key, value>> pairs in insertion order
    numbers,     \* analyze_file's numbers
    ratios,      \* analyze_file's ratios
    flags,       \* analyze_file's flags
    report       \* what write_reports was given, once it has been called

vars == <<pc, fname, read_ok, text, scale, fin, numbers, ratios, flags, report>>

----------------------------------------------------------------------------
(***************************************************************************)
(* Naturals of any size.  TLC's integers are 32 bits wide, so a natural is *)
(* a little-endian sequence of 15-bit limbs without a high zero limb; zero *)
(* is the empty sequence.                                                  *)
(***************************************************************************)
Base == 2^15

Rest(a) == IF a = <<>> THEN <<>> ELSE Tail(a)
Low(a) == IF a = <<>> THEN 0 ELSE Head(a)

RECURSIVE BNorm(_)
BNorm(a) ==
    IF a = <<>> THEN a
    ELSE IF a[Len(a)] = 0 THEN BNorm(SubSeq(a, 1, Len(a) - 1)) ELSE a

BFromInt(n) ==
    BNorm(<<n % Base, (n \div Base) % Base, n \div (Base * Base)>>)

RECURSIVE BAddC(_, _, _)
BAddC(a, b, c) ==
    IF a = <<>> /\ b = <<>> THEN (IF c = 0 THEN <<>> ELSE <<c>>)
    ELSE LET s == Low(a) + Low(b) + c
         IN  <<s % Base>> \o BAddC(Rest(a), Rest(b), s \div Base)
BAdd(a, b) == BAddC(a, b, 0)

\* a - b - c, for a >= b + c
RECURSIVE BSubC(_, _, _)
BSubC(a, b, c) ==
    IF a = <<>> THEN <<>>
    ELSE LET d == Low(a) - Low(b) - c
         IN  IF d < 0 THEN <<d + Base>> \o BSubC(Rest(a), Rest(b), 1)
                      ELSE <<d>> \o BSubC(Rest(a), Rest(b), 0)
BSub(a, b) == BNorm(BSubC(a, b, 0))

\* -1, 0, 1 as a < b, a = b, a > b
RECURSIVE BCmpAt(_, _, _)
BCmpAt(a, b, i) ==
    IF i = 0 THEN 0
    ELSE IF a[i] < b[i] THEN -1
    ELSE IF a[i] > b[i] THEN 1
    ELSE BCmpAt(a, b, i - 1)
BCmp(a, b) ==
    IF Len(a) < Len(b) THEN -1
    ELSE IF Len(a) > Len(b) THEN 1
    ELSE BCmpAt(a, b, Len(a))

\* a * k + c, for 0 <= k, c < Base
RECURSIVE BMulSmallC(_, _, _)
BMulSmallC(a, k, c) ==
    IF a = <<>> THEN (IF c = 0 THEN <<>> ELSE <<c>>)
    ELSE LET p == Head(a) * k + c
         IN  <<p % Base>> \o BMulSmallC(Tail(a), k, p \div Base)
BMulSmall(a, k) == BNorm(BMulSmallC(a, k, 0))

RECURSIVE BMul(_, _)
BMul(a, b) ==
    IF b = <<>> \/ a = <<>> THEN <<>>
    ELSE BAdd(BMulSmall(a, Head(b)),
              LET r == BMul(a, Tail(b)) IN IF r = <<>> THEN r ELSE <<0>> \o r)

\* a * 2^n
BShl(a, n) ==
    IF a = <<>> THEN a
    ELSE [i \in 1..(n \div 15) |-> 0] \o BMulSmall(a, 2^(n % 15))

RECURSIVE IntBitLen(_)
IntBitLen(n) == IF n = 0 THEN 0 ELSE 1 + IntBitLen(n \div 2)
BBitLen(a) ==
    IF a = <<>> THEN 0 ELSE 15 * (Len(a) - 1) + IntBitLen(a[Len(a)])

BIsOdd(a) == a # <<>> /\ a[1] % 2 = 1

(***************************************************************************)
(* Long division, one bit of the dividend at a time from the top limb      *)
(* down.  DivBits brings the bits j-1 .. 0 of the limb x into the          *)
(* remainder r and returns <<remainder, quotient limb>>.                   *)
(***************************************************************************)
RECURSIVE DivBits(_, _, _, _, _)
DivBits(r, x, j, d, q) ==
    IF j = 0 THEN <<r, q>>
    ELSE LET Bit(r2) ==
                 IF BCmp(r2, d) >= 0
                 THEN DivBits(BSub(r2, d), x, j - 1, d, 2 * q + 1)
                 ELSE DivBits(r2, x, j - 1, d, 2 * q)
         IN  Bit(BNorm(BMulSmallC(r, 2, (x \div 2^(j - 1)) % 2)))

\* <<quotient, remainder>> once the limbs n[i], ..., n[1] are brought in, given
\* the quotient limbs q and the remainder r of the limbs above them
RECURSIVE BDivAt(_, _, _, _, _)
BDivAt(n, d, i, r, q) ==
    IF i = 0 THEN <<q, r>>
    ELSE LET Limb(step) ==
                 IF step[2] >= 0
                 THEN BDivAt(n, d, i - 1, step[1], <<step[2]>> \o q)
                 ELSE <<q, r>>
         IN  Limb(DivBits(r, n[i], 15, d, 0))
BDivMod(n, d) ==
    LET Result(qr) == <<BNorm(qr[1]), qr[2]>>
    IN  Result(BDivAt(n, d, Len(n), <<>>, <<>>))

----------------------------------------------------------------------------
(***************************************************************************)
(* Python's float: (-1)^neg * m * 2^e with 2^52 <= m < 2^53, or m = 0 (a   *)
(* signed zero).  Every operation rounds the exact result to the nearest   *)
(* such value, ties to even.  The values reached here are far from the     *)
(* subnormal and the overflow ranges.  None is Python's None.              *)
(***************************************************************************)
MantBits == 53

None == [kind |-> "None"]
Float(neg, m, e) == [kind |-> "float", neg |-> neg, m |-> m, e |-> e]
FZero(neg) == Float(neg, <<>>, 0)
IsZero(x) == x.m = <<>>

\* p / q * 2^e0 for naturals p and q > 0, rounded: the quotient is scaled by
\* 2^k to MantBits + 1 or MantBits + 2 bits, the sh bits below the mantissa
\* are cut off and decide the rounding together with the remainder
RoundQuot(neg, p, q, e0) ==
    LET Carry(m1, e) ==
            IF BBitLen(m1) > MantBits
            THEN Float(neg, BShl(<<1>>, MantBits - 1), e + 1)
            ELSE Float(neg, m1, e)
        RoundUp(m, half, sticky, e) ==
            Carry(IF half > 0 \/ (half = 0 /\ (sticky \/ BIsOdd(m)))
                  THEN BAddC(m, <<>>, 1) ELSE m, e)
        Halfway(t, unit, sticky, e) ==
            RoundUp(t[1], BCmp(BMulSmall(t[2], 2), unit), sticky, e)
        Cut(qr, unit, e) ==
            Halfway(BDivMod(qr[1], unit), unit, qr[2] # <<>>, e)
        Scaled(qr, sh, e) == Cut(qr, BShl(<<1>>, sh), e + sh)
        Quot(qr, e) == Scaled(qr, BBitLen(qr[1]) - MantBits, e)
        Shifted(k) ==
            Quot(BDivMod(BShl(p, IF k > 0 THEN k ELSE 0),
                         BShl(q, IF k < 0 THEN -k ELSE 0)), e0 - k)
    IN  IF p = <<>> THEN FZero(neg)
        ELSE Shifted((MantBits + 1) - (BBitLen(p) - BBitLen(q)))

FromInt(n) == RoundQuot(n < 0, BFromInt(IF n < 0 THEN -n ELSE n), <<1>>, 0)
FNeg(x) == Float(~x.neg, x.m, x.e)
FMul(x, y) == RoundQuot(x.neg # y.neg, BMul(x.m, y.m), <<1>>, x.e + y.e)
FDiv(x, y) == RoundQuot(x.neg # y.neg, x.m, y.m, x.e - y.e)
\* x - y: the exact difference of the two values, rounded
FSub(x, y) ==
    LET Diff(a, b, c, e0) ==
            RoundQuot(IF x.neg # y.neg THEN x.neg
                      ELSE IF c = 0 THEN FALSE
                      ELSE IF c > 0 THEN x.neg ELSE ~x.neg,
                      IF x.neg # y.neg THEN BAdd(a, b)
                      ELSE IF c >= 0 THEN BSub(a, b) ELSE BSub(b, a),
                      <<1>>, e0)
        Aligned(a, b, e0) == Diff(a, b, BCmp(a, b), e0)
        Common(e0) == Aligned(BShl(x.m, x.e - e0), BShl(y.m, y.e - e0), e0)
    IN  Common(IF x.e < y.e THEN x.e ELSE y.e)

\* |x| < |y|: the mantissas are normalized, so the exponents decide first
MagLess(x, y) ==
    IF IsZero(y) THEN FALSE
    ELSE IF IsZero(x) THEN TRUE
    ELSE x.e < y.e \/ (x.e = y.e /\ BCmp(x.m, y.m) < 0)
\* x < y
FLess(x, y) ==
    IF IsZero(x) /\ IsZero(y) THEN FALSE
    ELSE IF IsZero(x) THEN ~y.neg
    ELSE IF IsZero(y) THEN x.neg
    ELSE IF x.neg # y.neg THEN x.neg
    ELSE IF x.neg THEN MagLess(y, x) ELSE MagLess(x, y)
\* x == y
FEq(x, y) == (IsZero(x) /\ IsZero(y)) \/ x = y

----------------------------------------------------------------------------
(***************************************************************************)
(* Strings.                                                                *)
(***************************************************************************)
Chr(s, i) == SubSeq(s, i, i)
Digits == {"0", "1", "2", "3", "4", "5", "6", "7", "8", "9"}
DigitVal(c) == CHOOSE n \in 0..9 : Chr("0123456789", n + 1) = c
Whitespace == {" ", "\t"}

UpperCase == "ABCDEFGHIJKLMNOPQRSTUVWXYZ"
LowerCase == "abcdefghijklmnopqrstuvwxyz"
LowerChar(c) ==
    IF \E i \in 1..26 : Chr(UpperCase, i) = c
    THEN Chr(LowerCase, CHOOSE i \in 1..26 : Chr(UpperCase, i) = c)
    ELSE c
\* s.lower()
RECURSIVE lower(_)
lower(s) == IF s = "" THEN "" ELSE LowerChar(Chr(s, 1)) \o lower(SubSeq(s, 2, Len(s)))

\* s.strip()
RECURSIVE lstrip(_)
lstrip(s) ==
    IF s # "" /\ Chr(s, 1) \in Whitespace THEN lstrip(SubSeq(s, 2, Len(s))) ELSE s
RECURSIVE rstrip(_)
rstrip(s) ==
    IF s # "" /\ Chr(s, Len(s)) \in Whitespace
    THEN rstrip(SubSeq(s, 1, Len(s) - 1)) ELSE s
strip(s) == rstrip(lstrip(s))

\* ph in s
Contains(ph, s) ==
    \E i \in 1..(Len(s) - Len(ph) + 1) : SubSeq(s, i, i + Len(ph) - 1) = ph

\* s.replace(c, ''), for every character c of the set
RECURSIVE RemoveChars(_, _)
RemoveChars(s, cs) ==
    IF s = "" THEN ""
    ELSE (IF Chr(s, 1) \in cs THEN "" ELSE Chr(s, 1))
         \o RemoveChars(SubSeq(s, 2, Len(s)), cs)

\* the characters of s that are in cs
RECURSIVE KeepChars(_, _)
KeepChars(s, cs) ==
    IF s = "" THEN ""
    ELSE (IF Chr(s, 1) \in cs THEN Chr(s, 1) ELSE "")
         \o KeepChars(SubSeq(s, 2, Len(s)), cs)

----------------------------------------------------------------------------
(***************************************************************************)
(* number_re = \(?-?\$?[\d,]+(?:\.\d+)?\)?                                 *)
(* Every part after [\d,]+ is optional and no optional character can start *)
(* the part that follows it, so the greedy match is the only match.        *)
(***************************************************************************)
RECURSIVE RunEnd(_, _, _)
RunEnd(s, i, cs) ==
    IF i <= Len(s) /\ Chr(s, i) \in cs THEN RunEnd(s, i + 1, cs) ELSE i
Opt(s, i, c) == IF i <= Len(s) /\ Chr(s, i) = c THEN i + 1 ELSE i

\* the index after the match of number_re that starts at i, 0 when none does
number_re_match(s, i) ==
    LET Fraction(d, f) ==
            IF d <= Len(s) /\ Chr(s, d) = "." /\ f > d + 1 THEN f ELSE d
        Body(c, d) ==
            IF d = c THEN 0
            ELSE Opt(s, Fraction(d, RunEnd(s, d + 1, Digits)), ")")
        Prefix(c) == Body(c, RunEnd(s, c, Digits \cup {","}))
    IN  Prefix(Opt(s, Opt(s, Opt(s, i, "("), "-"), "$"))

\* number_re.findall(s), from index i on
RECURSIVE number_re_findall_from(_, _)
number_re_findall_from(s, i) ==
    IF i > Len(s) THEN <<>>
    ELSE LET Match(e) ==
                 IF e = 0 THEN number_re_findall_from(s, i + 1)
                 ELSE <<SubSeq(s, i, e - 1)>> \o number_re_findall_from(s, e)
         IN  Match(number_re_match(s, i))
number_re_findall(s) == number_re_findall_from(s, 1)

----------------------------------------------------------------------------
(***************************************************************************)
(* parse_number_str.  The texts of the model are ASCII: the em dash of the *)
(* sentinel list and the en dash that is replaced by '-' do not occur.     *)
(***************************************************************************)
\* the natural a string of decimal digits denotes
RECURSIVE DecToBig(_, _)
DecToBig(s, acc) ==
    IF s = "" THEN acc
    ELSE LET Digit(a) == IF Len(a) >= 0 THEN DecToBig(SubSeq(s, 2, Len(s)), a) ELSE a
         IN  Digit(BAdd(BMulSmall(acc, 10), BFromInt(DigitVal(Chr(s, 1)))))
RECURSIVE Pow10(_)
Pow10(k) == IF k = 0 THEN <<1>> ELSE BMulSmall(Pow10(k - 1), 10)

\* whether float(s) succeeds, for s made of digits, '-' and '.'
FloatParses(s) ==
    LET Unsigned(u) ==
            /\ KeepChars(u, {"-"}) = ""
            /\ Len(KeepChars(u, {"."})) <= 1
            /\ KeepChars(u, Digits) # ""
    IN  Unsigned(IF s # "" /\ Chr(s, 1) = "-" THEN SubSeq(s, 2, Len(s)) ELSE s)
\* float(s), correctly rounded, for such an s
float(s) ==
    LET Decimal(neg, u, dot) ==
            RoundQuot(neg, DecToBig(KeepChars(u, Digits), <<>>),
                      Pow10(IF dot > Len(u) THEN 0 ELSE Len(u) - dot), 0)
        Unsigned(neg, u) ==
            Decimal(neg, u, IF Contains(".", u)
                            THEN CHOOSE i \in 1..Len(u) : Chr(u, i) = "."
                            ELSE Len(u) + 1)
        Signed(neg) == Unsigned(neg, IF neg THEN SubSeq(s, 2, Len(s)) ELSE s)
    IN  Signed(Chr(s, 1) = "-")

\* parse_number_str with the scale applied to positive values only
parse_number_str_positive_scaled(s0, scl) ==
    LET Scaled(neg, val) ==
            IF neg THEN FNeg(val) ELSE FMul(val, scl)
        Cleaned(neg, s) ==
            IF s \in {"", ".", "-"} THEN None
            ELSE IF ~FloatParses(s) THEN None
            ELSE Scaled(neg, float(s))
        Inner(neg, s) ==
            Cleaned(neg, KeepChars(RemoveChars(s, {"$", ",", " "}),
                                   Digits \cup {"-", "."}))
        Parens(s, neg) ==
            Inner(neg, IF neg THEN SubSeq(s, 2, Len(s) - 1) ELSE s)
        Stripped(s) ==
            IF s \in {"", "-", "N/A", "na", "n/a"} THEN None
            ELSE Parens(s, Chr(s, 1) = "(" /\ Chr(s, Len(s)) = ")")
    IN  Stripped(strip(s0))

parse_number_str(s0, scl) ==
    LET Scaled(neg, val) == FMul(IF neg THEN FNeg(val) ELSE val, scl)
        Cleaned(neg, s) ==
            IF s \in {"", ".", "-"} THEN None
            ELSE IF ~FloatParses(s) THEN None
            ELSE Scaled(neg, float(s))
        Inner(neg, s) ==
            Cleaned(neg, KeepChars(RemoveChars(s, {"$", ",", " "}),
                                   Digits \cup {"-", "."}))
        Parens(s, neg) ==
            Inner(neg, IF neg THEN SubSeq(s, 2, Len(s) - 1) ELSE s)
        Stripped(s) ==
            IF s \in {"", "-", "N/A", "na", "n/a"} THEN None
            ELSE Parens(s, Chr(s, 1) = "(" /\ Chr(s, Len(s)) = ")")
    IN  Stripped(strip(s0))

----------------------------------------------------------------------------
(***************************************************************************)
(* The alias table, in its iteration order.                                *)
(***************************************************************************)
Entry(key, phrases) == [key |-> key, phrases |-> phrases]
ALIASES == <<
    Entry("Revenue", <<"revenue", "net sales", "sales", "turnover", "total revenue">>),
    Entry("Cost of Goods Sold", <<"cost of goods sold", "cogs", "cost of sales", "cost of goods">>),
    Entry("Gross Profit", <<"gross profit">>),
    Entry("Operating Income", <<"operating income", "ebit", "operating profit">>),
    Entry("Net Income", <<"net income", "profit for the year", "net profit", "profit (loss)", "profit attributable">>),
    Entry("Total Assets", <<"total assets", "assets">>),
    Entry("Total Liabilities", <<"total liabilities", "liabilities">>),
    Entry("Equity", <<"equity", "total equity", "shareholders' equity">>),
    Entry("Cash and Equivalents", <<"cash and cash equivalents", "cash at bank", "cash">>),
    Entry("Current Assets", <<"current assets">>),
    Entry("Current Liabilities", <<"current liabilities">>),
    Entry("Inventory", <<"inventory", "inventories">>),
    Entry("Short Term Debt", <<"current portion of long-term debt", "short-term borrowings", "short term debt">>),
    Entry("Long Term Debt", <<"long-term debt", "long term debt", "long term borrowings">>) >>

Range(f) == {f[i] : i \in DOMAIN f}
Keys == {ALIASES[i].key : i \in DOMAIN ALIASES}
AliasPhrases == UNION {Range(ALIASES[i].phrases) : i \in DOMAIN ALIASES}
\* the phrases of detect_scale
ThousandsNotes == {"in thousands", "(in thousands", "amounts in thousands"}
MillionsNotes == {"in millions", "(in millions", "amounts in millions"}

ScaleOne == 1
ScaleThousands == 1000
ScaleMillions == 1000000
Scale1 == FromInt(ScaleOne)
Scale1000 == FromInt(ScaleThousands)
Scale1000000 == FromInt(ScaleMillions)
Scales == {Scale1, Scale1000, Scale1000000}

----------------------------------------------------------------------------
(***************************************************************************)
(* The documents: up to MaxLines lines, each one of LinePool.              *)
(***************************************************************************)
MaxLines == 3
LinePool == {
    "  Total Revenue  $1,000",
    "Net Income  (50)",
    "Cost of sales 400",
    "Gross profit on sales 0",
    "(In Thousands, except sales volume)",
    "Turnover (in millions) 0.6",
    "Current assets less current liabilities 80",
    "Current liabilities 100",
    "Profit attributable to equity holders 40",
    "Cash at bank (5)" }
Docs == UNION {[1..n -> LinePool] : n \in 0..MaxLines}

(***************************************************************************)
(* What the string operations give on the lines and tokens of LinePool,    *)
(* computed once.                                                          *)
(***************************************************************************)
\* a function of a finite domain with all its values computed (equality
\* compares the values), and a set with all its elements computed
Table(f) == IF f = f THEN f ELSE f
Elements(S) == {x : x \in S}
PoolLines == Elements(LinePool \cup {strip(ln) : ln \in LinePool})
LowerOf == Table([ln \in PoolLines |-> lower(ln)])
NumsOf == Table([ln \in PoolLines |-> number_re_findall(ln)])
\* ph in ln.lower()
FoundIn == Table([ln \in PoolLines |->
                    Elements({ph \in AliasPhrases \cup ThousandsNotes \cup MillionsNotes :
                                 Contains(ph, LowerOf[ln])})])
PoolTokens == Elements(UNION {Range(NumsOf[ln]) : ln \in PoolLines})
ParseOf == Table([p \in PoolTokens \X Scales |-> parse_number_str(p[1], p[2])])
\* the values the dict of one document can hold, by the document's scale
ValuesAt == Table([s \in Scales |-> Elements({ParseOf[<<t, s>>] : t \in PoolTokens} \ {None})])
\* their differences
SubOf == Table([p \in UNION {ValuesAt[s] \X ValuesAt[s] : s \in Scales} |-> FSub(p[1], p[2])])
\* and the quotients of two values, and of a difference and its minuend
DivOf ==
    LET Quotients(sub) ==
            [p \in {d \in DOMAIN sub \cup {<<sub[r], r[1]>> : r \in DOMAIN sub} :
                        ~IsZero(d[2])} |-> FDiv(p[1], p[2])]
    IN  Table(Quotients(SubOf))
\* x - y and x / y
Sub(x, y) == SubOf[<<x, y>>]
Div(x, y) == DivOf[<<x, y>>]

----------------------------------------------------------------------------
(***************************************************************************)
(* A dict: its <<key, value>> pairs in insertion order.                    *)
(***************************************************************************)
Has(d, k) == \E i \in DOMAIN d : d[i][1] = k
\* d.get(k)
Get(d, k) == IF Has(d, k) THEN d[CHOOSE i \in DOMAIN d : d[i][1] = k][2] ELSE None
\* d.setdefault(k, v): a key keeps its first value
setdefault(d, k, v) == IF Has(d, k) THEN d ELSE Append(d, <<k, v>>)
\* del d[k] before d[k] = v: an updated key moves to the end
move_to_end(d, k, v) ==
    Append(SelectSeq(d, LAMBDA e : e[1] # k), <<k, v>>)
\* d[k] = v
Put(d, k, v) ==
    IF Has(d, k) THEN [d EXCEPT ![CHOOSE i \in DOMAIN d : d[i][1] = k] = <<k, v>>]
    ELSE Append(d, <<k, v>>)
KeysOf(d) == [i \in DOMAIN d |-> d[i][1]]

----------------------------------------------------------------------------
\* detect_scale with the two tests in the other order
detect_scale_millions_first(txt) ==
    IF \E i \in DOMAIN txt : FoundIn[txt[i]] \cap MillionsNotes # {}
    THEN Scale1000000
    ELSE IF \E i \in DOMAIN txt : FoundIn[txt[i]] \cap ThousandsNotes # {}
    THEN Scale1000
    ELSE Scale1

\* no phrase holds a line break, so a phrase is in text.lower() when it is in
\* a line of it
detect_scale(txt) ==
    IF \E i \in DOMAIN txt : FoundIn[txt[i]] \cap ThousandsNotes # {}
    THEN Scale1000
    ELSE IF \E i \in DOMAIN txt : FoundIn[txt[i]] \cap MillionsNotes # {}
    THEN Scale1000000
    ELSE Scale1

\* lines = [ln.strip() for ln in text.splitlines() if ln.strip()]
NonEmpty(ln) == ln # ""
StrippedLines(txt) == SelectSeq([i \in DOMAIN txt |-> strip(txt[i])], NonEmpty)

\* the loop over ALIASES.items() with a break after the first key that matches
RECURSIVE ScanAliasesFirstKey(_, _, _, _)
ScanAliasesFirstKey(results, ln, scl, i) ==
    IF i > Len(ALIASES) THEN results
    ELSE LET Rightmost(nums) ==
                 IF nums # <<>> /\ ParseOf[<<nums[Len(nums)], scl>>] # None
                 THEN Put(results, ALIASES[i].key, ParseOf[<<nums[Len(nums)], scl>>])
                 ELSE results
         IN  IF Range(ALIASES[i].phrases) \cap FoundIn[ln] # {}
             THEN Rightmost(NumsOf[ln])
             ELSE ScanAliasesFirstKey(results, ln, scl, i + 1)

\* the loop over ALIASES.items() for one line, from entry i on
RECURSIVE ScanAliases(_, _, _, _)
ScanAliases(results, ln, scl, i) ==
    IF i > Len(ALIASES) THEN results
    ELSE LET Onward(r) == IF Len(r) >= 0 THEN ScanAliases(r, ln, scl, i + 1) ELSE r
             Hit(nums, val) ==
                 IF /\ Range(ALIASES[i].phrases) \cap FoundIn[ln] # {}
                    /\ nums # <<>>
                    /\ val # None
                 THEN Put(results, ALIASES[i].key, val)
                 ELSE results
             Rightmost(nums) == Hit(nums, ParseOf[<<nums[Len(nums)], scl>>])
         IN  Onward(Rightmost(NumsOf[ln]))

\* the loop over lines, from line j on
RECURSIVE ScanLines(_, _, _, _)
ScanLines(results, lines, scl, j) ==
    IF j > Len(lines) THEN results
    ELSE LET Onward(r) == IF Len(r) >= 0 THEN ScanLines(r, lines, scl, j + 1) ELSE r
         IN  Onward(ScanAliases(results, lines[j], scl, 1))

find_by_aliases(txt, scl) == ScanLines(<<>>, StrippedLines(txt), scl, 1)

\* number_re cannot match across a line break: the tokens of the text are
\* the tokens of its lines
RECURSIVE TokensFrom(_, _)
TokensFrom(txt, i) ==
    IF i > Len(txt) THEN <<>> ELSE NumsOf[txt[i]] \o TokensFrom(txt, i + 1)
NotNone(v) == v # None
extract_all_numbers(txt, scl) ==
    LET nums == TokensFrom(txt, 1)
    IN  SelectSeq([i \in DOMAIN nums |-> ParseOf[<<nums[i], scl>>]], NotNone)

One == FromInt(1)
Two == FromInt(2)

\* safe_div giving 0.0 for a zero denominator
safe_div_zero_default(a, b) ==
    IF a = None \/ b = None THEN None
    ELSE IF IsZero(b) THEN FZero(FALSE)
    ELSE Div(a, b)
\* safe_div refusing every denominator below 1 in magnitude
safe_div_small_denominator(a, b) ==
    IF a = None \/ b = None THEN None
    ELSE IF MagLess(b, One) THEN None
    ELSE Div(a, b)

\* a / b of floats raises only for b == 0, which is tested first: the except
\* clause is never entered
safe_div(a, b) ==
    IF a = None \/ b = None THEN None
    ELSE IF IsZero(b) THEN None
    ELSE Div(a, b)

\* bool(v): None and both zeros are falsy
Truthy(v) == v # None /\ ~IsZero(v)

\* the ratios: the key of r, the numerator and the denominator of its safe_div
Ratio(key, a, b) == [key |-> key, a |-> a, b |-> b]
Ratios == {
    Ratio("gross_margin", "gross", "Revenue"),
    Ratio("operating_margin", "Operating Income", "Revenue"),
    Ratio("net_margin", "Net Income", "Revenue"),
    Ratio("current_ratio", "Current Assets", "Current Liabilities"),
    Ratio("debt_to_equity", "Total Liabilities", "Equity"),
    Ratio("roe", "Net Income", "Equity"),
    Ratio("roa", "Net Income", "Total Assets") }
RatioOf(key) == CHOOSE q \in Ratios : q.key = key

compute_ratios(f) ==
    LET gross == IF Truthy(Get(f, "Gross Profit")) THEN Get(f, "Gross Profit")
                 ELSE IF Get(f, "Revenue") = None \/ Get(f, "Cost of Goods Sold") = None
                 THEN None
                 ELSE Sub(Get(f, "Revenue"), Get(f, "Cost of Goods Sold"))
        Arg(a) == IF a = "gross" THEN gross ELSE Get(f, a)
    IN  [key \in {q.key : q \in Ratios} |->
            safe_div(Arg(RatioOf(key).a), Arg(RatioOf(key).b))]

LiquidityFlag == "Current ratio < 1 - potential short-term liquidity concern"
LeverageFlag == "High debt-to-equity (>2) - leverage is high"
LossFlag == "Net income negative - company reported a loss"
CashFlag == "Negative cash - check parsing errors"

\* flag_anomalies with <= in the liquidity rule
flag_anomalies_at_most_one(f, r) ==
    LET f1 == IF /\ r.current_ratio # None
                 /\ (FLess(r.current_ratio, One) \/ FEq(r.current_ratio, One))
              THEN <<LiquidityFlag>> ELSE <<>>
        f2 == IF r.debt_to_equity # None /\ FLess(Two, r.debt_to_equity)
              THEN Append(f1, LeverageFlag) ELSE f1
        f3 == IF Get(f, "Net Income") # None /\ FLess(Get(f, "Net Income"), FZero(FALSE))
              THEN Append(f2, LossFlag) ELSE f2
    IN  IF /\ Get(f, "Cash and Equivalents") # None
           /\ FLess(Get(f, "Cash and Equivalents"), FZero(FALSE))
        THEN Append(f3, CashFlag) ELSE f3

flag_anomalies(f, r) ==
    LET f1 == IF r.current_ratio # None /\ FLess(r.current_ratio, One)
              THEN <<LiquidityFlag>> ELSE <<>>
        f2 == IF r.debt_to_equity # None /\ FLess(Two, r.debt_to_equity)
              THEN Append(f1, LeverageFlag) ELSE f1
        f3 == IF Get(f, "Net Income") # None /\ FLess(Get(f, "Net Income"), FZero(FALSE))
              THEN Append(f2, LossFlag) ELSE f2
    IN  IF /\ Get(f, "Cash and Equivalents") # None
           /\ FLess(Get(f, "Cash and Equivalents"), FZero(FALSE))
        THEN Append(f3, CashFlag) ELSE f3

----------------------------------------------------------------------------
(***************************************************************************)
(* main() and analyze_file().  HAVE_TK, HAVE_PDFPLUMBER, what exists on    *)
(* the disk, what the user picks in the file dialog and whether a read     *)
(* succeeds are inputs, drawn where the code reads them.                   *)
(***************************************************************************)
\* args.file when no file is given, and the dialog's answer when cancelled
NoName == ""
DefaultFiles == <<"complex_statement.txt", "statement.txt">>
ArgFiles == {NoName, "annual.pdf"}
Unset == [kind |-> "unset"]

Init ==
    /\ pc = "main"
    /\ fname \in ArgFiles
    /\ read_ok = FALSE
    /\ text = <<>>
    /\ scale = Unset
    /\ fin = <<>>
    /\ numbers = <<>>
    /\ ratios = Unset
    /\ flags = <<>>
    /\ report = Unset

\* main, lines 270-281: the file of the command line, else the first default
\* that exists
Main ==
    /\ pc = "main"
    /\ \E exists \in [DOMAIN DefaultFiles -> BOOLEAN] :
          LET found == {i \in DOMAIN DefaultFiles : exists[i]}
              name == IF fname # NoName THEN fname
                      ELSE IF found # {}
                      THEN DefaultFiles[CHOOSE i \in found : \A j \in found : i <= j]
                      ELSE NoName
          IN  /\ fname' = name
              /\ pc' = IF name = NoName THEN "no_file" ELSE "analyze_file"
    /\ UNCHANGED <<read_ok, text, scale, fin, numbers, ratios, flags, report>>

\* main, lines 281-291: no file name yet
NoFile ==
    /\ pc = "no_file"
    /\ \E HAVE_TK \in BOOLEAN, chosen \in ArgFiles :
          IF HAVE_TK
          THEN /\ fname' = IF chosen # NoName THEN chosen ELSE fname
               /\ pc' = "analyze_file"
          ELSE /\ fname' = fname
               /\ pc' = "returned"
    /\ UNCHANGED <<read_ok, text, scale, fin, numbers, ratios, flags, report>>

\* os.path.splitext(path)[1].lower() == ".pdf"
IsPdf(path) == Len(path) >= 4 /\ lower(SubSeq(path, Len(path) - 3, Len(path))) = ".pdf"

\* analyze_file, lines 230-237.  os.path.exists(None) raises TypeError.
CheckFile ==
    /\ pc = "analyze_file"
    /\ \E exists \in BOOLEAN, HAVE_PDFPLUMBER \in BOOLEAN :
          pc' = IF fname = NoName THEN "raised"
                ELSE IF ~exists THEN "returned"
                ELSE IF IsPdf(fname) /\ ~HAVE_PDFPLUMBER THEN "returned"
                ELSE "read"
    /\ UNCHANGED <<fname, read_ok, text, scale, fin, numbers, ratios, flags, report>>

\* a reader that answers a failed read with an empty text
extract_text_or_empty(ok, doc) ==
    [raised |-> FALSE, text |-> IF ok THEN doc ELSE <<>>]

\* extract_text_from_pdf / extract_text_from_txt on a file whose whole text is
\* doc, when the read succeeds (ok) and when it fails: an error of open() or
\* read() is not caught.  HAVE_PDFPLUMBER was tested by the caller.
extract_text(ok, doc) ==
    IF ok THEN [raised |-> FALSE, text |-> doc]
    ELSE [raised |-> TRUE, text |-> <<>>]

\* analyze_file, lines 238-240
ReadText ==
    /\ pc = "read"
    /\ \E ok \in BOOLEAN, doc \in Docs :
          LET r == extract_text(ok, doc)
          IN  /\ pc' = IF r.raised THEN "raised" ELSE "detect_scale"
              /\ text' = r.text
              /\ read_ok' = ok
    /\ UNCHANGED <<fname, scale, fin, numbers, ratios, flags, report>>

\* line 241
DetectScale ==
    /\ pc = "detect_scale"
    /\ scale' = detect_scale(text)
    /\ pc' = "find_by_aliases"
    /\ UNCHANGED <<fname, read_ok, text, fin, numbers, ratios, flags, report>>

\* line 244
FindByAliases ==
    /\ pc = "find_by_aliases"
    /\ fin' = find_by_aliases(text, scale)
    /\ pc' = "extract_all_numbers"
    /\ UNCHANGED <<fname, read_ok, text, scale, numbers, ratios, flags, report>>

\* line 245
ExtractAllNumbers ==
    /\ pc = "extract_all_numbers"
    /\ numbers' = extract_all_numbers(text, scale)
    /\ pc' = "compute_ratios"
    /\ UNCHANGED <<fname, read_ok, text, scale, fin, ratios, flags, report>>

\* line 246
ComputeRatios ==
    /\ pc = "compute_ratios"
    /\ ratios' = compute_ratios(fin)
    /\ pc' = "flag_anomalies"
    /\ UNCHANGED <<fname, read_ok, text, scale, fin, numbers, flags, report>>

\* line 247
FlagAnomalies ==
    /\ pc = "flag_anomalies"
    /\ flags' = flag_anomalies(fin, ratios)
    /\ pc' = "write_reports"
    /\ UNCHANGED <<fname, read_ok, text, scale, fin, numbers, ratios, report>>

\* lines 248-267: the results are printed and handed to write_reports
WriteReports ==
    /\ pc = "write_reports"
    /\ report' = [financial_items |-> fin, numbers_found |-> numbers,
                  ratios |-> ratios, flags |-> flags]
    /\ pc' = "done"
    /\ UNCHANGED <<fname, read_ok, text, scale, fin, numbers, ratios, flags>>

Next ==
    \/ Main
    \/ NoFile
    \/ CheckFile
    \/ ReadText
    \/ DetectScale
    \/ FindByAliases
    \/ ExtractAllNumbers
    \/ ComputeRatios
    \/ FlagAnomalies
    \/ WriteReports

Spec == Init /\ [][Next]_vars

----------------------------------------------------------------------------
(***************************************************************************)
(* What the documentation says of the program, stated on the states of     *)
(* Spec.  The statements read the lines, phrases and tokens themselves.    *)
(***************************************************************************)
AliasIndex == Table([K \in Keys |-> CHOOSE i \in DOMAIN ALIASES : ALIASES[i].key = K])
\* the items with an alias phrase in the line
KeysIn ==
    Table([ln \in PoolLines |->
              Elements({K \in Keys : \E ph \in Range(ALIASES[AliasIndex[K]].phrases) :
                                        Contains(ph, lower(ln))})])
\* the rightmost numeric token of the line, normalized: None when the line
\* has no token or the token normalizes to absent
RightmostOf ==
    Table([p \in PoolLines \X Scales |->
              IF NumsOf[p[1]] = <<>> THEN None
              ELSE ParseOf[<<NumsOf[p[1]][Len(NumsOf[p[1]])], p[2]>>]])
\* the lines that give the item K a value
HitLines(lines, K, scl) ==
    {j \in DOMAIN lines : K \in KeysIn[lines[j]] /\ RightmostOf[<<lines[j], scl>>] # None}
Max(S) == CHOOSE j \in S : \A k \in S : k <= j
Min(S) == CHOOSE j \in S : \A k \in S : j <= k

\* C1: gross_margin is safe_div(G, Revenue), where G is the "Gross Profit" of
\* fin whenever fin has that key, a value of 0 included, else Revenue - Cost
\* of Goods Sold when fin has both, else unavailable.
C1_GrossMarginFromGrossProfit ==
    pc = "flag_anomalies" =>
        ratios.gross_margin =
            safe_div(IF Has(fin, "Gross Profit") THEN Get(fin, "Gross Profit")
                     ELSE IF Has(fin, "Revenue") /\ Has(fin, "Cost of Goods Sold")
                     THEN Sub(Get(fin, "Revenue"), Get(fin, "Cost of Goods Sold"))
                     ELSE None,
                     Get(fin, "Revenue"))
\* fin holds a Gross Profit of 0 beside a Revenue and a Cost of Goods Sold,
\* and gross_margin is not 0
C1_ZeroGrossProfit ==
    /\ pc = "flag_anomalies"
    /\ Has(fin, "Gross Profit") /\ IsZero(Get(fin, "Gross Profit"))
    /\ Has(fin, "Revenue") /\ ~IsZero(Get(fin, "Revenue"))
    /\ Has(fin, "Cost of Goods Sold")
    /\ ratios.gross_margin # None /\ ~IsZero(ratios.gross_margin)

\* C2: after find_by_aliases an item K has the normalized rightmost token of
\* the last line that contains an alias of K and whose rightmost token
\* normalizes to a number; a matching line whose token normalizes to absent
\* changes nothing, and K is missing iff there is no such line.
LastLineWins(lines, f, scl) ==
    \A K \in Keys :
        LET S == HitLines(lines, K, scl)
        IN  IF S = {} THEN ~Has(f, K)
            ELSE Has(f, K) /\ Get(f, K) = RightmostOf[<<lines[Max(S)], scl>>]
C2_LastLineWins ==
    pc = "extract_all_numbers" => LastLineWins(StrippedLines(text), fin, scale)
\* two lines gave K different values and a later line with an alias of K has
\* a token that normalizes to absent
OverwrittenThenAbsent(lines, f, scl) ==
    \E K \in Keys : \E h, i, j \in DOMAIN lines :
        /\ h < i /\ i < j
        /\ h \in HitLines(lines, K, scl) /\ i \in HitLines(lines, K, scl)
        /\ RightmostOf[<<lines[h], scl>>] # RightmostOf[<<lines[i], scl>>]
        /\ K \in KeysIn[lines[j]] /\ NumsOf[lines[j]] # <<>>
        /\ RightmostOf[<<lines[j], scl>>] = None
        /\ Get(f, K) = RightmostOf[<<lines[i], scl>>]
C2_OverwrittenThenAbsent ==
    pc = "extract_all_numbers" /\ OverwrittenThenAbsent(StrippedLines(text), fin, scale)

\* C3: safe_div is unavailable when an operand is absent or the denominator is
\* 0 and the quotient otherwise; each of the seven ratios is unavailable when
\* an item it needs is missing or its denominator is 0, and is the quotient of
\* its items otherwise, never a 0 put in its place.
Unavailable(a, b) == a = None \/ b = None \/ IsZero(b)
Quotient(r, a, b) == IF Unavailable(a, b) THEN r = None ELSE r = Div(a, b)
Operands(f) == {None} \cup {f[i][2] : i \in DOMAIN f}
GrossMarginGuarded(f, r) ==
    /\ (\/ Get(f, "Revenue") = None
        \/ IsZero(Get(f, "Revenue"))
        \/ /\ Get(f, "Gross Profit") = None
           /\ Get(f, "Cost of Goods Sold") = None) => r = None
    /\ r # None =>
          \/ Get(f, "Gross Profit") # None /\ r = Div(Get(f, "Gross Profit"), Get(f, "Revenue"))
          \/ /\ Get(f, "Cost of Goods Sold") # None
             /\ r = Div(Sub(Get(f, "Revenue"), Get(f, "Cost of Goods Sold")), Get(f, "Revenue"))
C3_SafeDivision ==
    pc = "flag_anomalies" =>
        /\ \A a, b \in Operands(fin) : Quotient(safe_div(a, b), a, b)
        /\ GrossMarginGuarded(fin, ratios.gross_margin)
        /\ Quotient(ratios.operating_margin, Get(fin, "Operating Income"), Get(fin, "Revenue"))
        /\ Quotient(ratios.net_margin, Get(fin, "Net Income"), Get(fin, "Revenue"))
        /\ Quotient(ratios.current_ratio, Get(fin, "Current Assets"), Get(fin, "Current Liabilities"))
        /\ Quotient(ratios.debt_to_equity, Get(fin, "Total Liabilities"), Get(fin, "Equity"))
        /\ Quotient(ratios.roe, Get(fin, "Net Income"), Get(fin, "Equity"))
        /\ Quotient(ratios.roa, Get(fin, "Net Income"), Get(fin, "Total Assets"))
        /\ DOMAIN ratios = {"gross_margin", "operating_margin", "net_margin",
                            "current_ratio", "debt_to_equity", "roe", "roa"}
\* Revenue is 0 and Net Income is not: the margins are unavailable while the
\* return on equity is a quotient
C3_ZeroDenominator ==
    /\ pc = "flag_anomalies"
    /\ Has(fin, "Revenue") /\ IsZero(Get(fin, "Revenue"))
    /\ Has(fin, "Net Income") /\ ~IsZero(Get(fin, "Net Income"))
    /\ ratios.net_margin = None /\ ratios.gross_margin = None
    /\ ratios.roe # None

\* C4: flag_anomalies returns the flags whose rule holds, in the order of the
\* rules: current_ratio available and < 1, debt_to_equity available and > 2,
\* Net Income present and < 0, Cash and Equivalents present and < 0.  The
\* liquidity flag is there iff its rule holds, whatever the other rules give,
\* and fin and ratios are what they were.
Flag(rule, flag) == IF rule THEN <<flag>> ELSE <<>>
LiquidityRule(r) == r.current_ratio # None /\ FLess(r.current_ratio, One)
LeverageRule(r) == r.debt_to_equity # None /\ FLess(Two, r.debt_to_equity)
LossRule(f) == Has(f, "Net Income") /\ FLess(Get(f, "Net Income"), FZero(FALSE))
CashRule(f) ==
    Has(f, "Cash and Equivalents") /\ FLess(Get(f, "Cash and Equivalents"), FZero(FALSE))
C4_FlagsInRuleOrder ==
    pc = "write_reports" =>
        /\ flags = Flag(LiquidityRule(ratios), LiquidityFlag)
                   \o Flag(LeverageRule(ratios), LeverageFlag)
                   \o Flag(LossRule(fin), LossFlag)
                   \o Flag(CashRule(fin), CashFlag)
        /\ (\E i \in DOMAIN flags : flags[i] = LiquidityFlag) <=> LiquidityRule(ratios)
        /\ fin = find_by_aliases(text, scale)
        /\ ratios = compute_ratios(fin)
\* the liquidity flag and the cash flag, in this order
C4_TwoFlags ==
    /\ pc = "write_reports"
    /\ flags = <<LiquidityFlag, CashFlag>>

\* C5: detect_scale returns 1000 if a thousands phrase occurs in the text in
\* any case, a millions phrase or not; otherwise 1,000,000 if a millions
\* phrase occurs; otherwise 1; and nothing else.
NotesIn ==
    Table([ln \in LinePool |->
              Elements({ph \in ThousandsNotes \cup MillionsNotes :
                           Contains(ph, lower(ln))})])
Noted(txt, notes) == \E i \in DOMAIN txt : NotesIn[txt[i]] \cap notes # {}
C5_ThousandsFirst ==
    pc = "find_by_aliases" =>
        /\ scale = IF Noted(text, ThousandsNotes) THEN Scale1000
                   ELSE IF Noted(text, MillionsNotes) THEN Scale1000000
                   ELSE Scale1
        /\ scale \in Scales
\* a text with a thousands and a millions phrase
C5_BothNotes ==
    /\ pc = "find_by_aliases"
    /\ Noted(text, ThousandsNotes) /\ Noted(text, MillionsNotes)
    /\ scale = Scale1000

\* the ratios of the text's items extracted with the scale s
RatiosAt(txt, s) == compute_ratios(find_by_aliases(txt, s))
SamePattern(r1, r2) == \A k \in DOMAIN r1 : (r1[k] = None) <=> (r2[k] = None)
\* no numeric token of the text has a fractional part
WholeTokens ==
    Table([ln \in LinePool |-> \A i \in DOMAIN NumsOf[ln] : ~Contains(".", NumsOf[ln][i])])
Whole(txt) == \A i \in DOMAIN txt : WholeTokens[txt[i]]

\* C6 as documented: the ratios of the items extracted with scale 1000 or
\* 1,000,000 are the ratios of the items extracted with scale 1, value by
\* value.
C6_RatiosScaleFree ==
    pc = "flag_anomalies" =>
        \A s \in {Scale1000, Scale1000000} : RatiosAt(text, s) = RatiosAt(text, Scale1)
\* C6: the ratios of the items extracted with scale 1, 1000 or 1,000,000
\* are available for the same keys, for every text, and have the same values
\* when the tokens of the text are whole numbers; the ratios of the run are
\* those of its scale.
ScaleCancels(txt, r) ==
    \A s \in Scales :
        LET Same(rs) ==
                /\ SamePattern(rs, r)
                /\ (Whole(txt) \/ s = scale) => rs = r
        IN  Same(RatiosAt(txt, s))
C6_RatiosScaleFreeWhole ==
    pc = "flag_anomalies" => ScaleCancels(text, ratios)
\* a text in thousands, of whole numbers, with a net margin
C6_WholeInThousands ==
    /\ pc = "flag_anomalies"
    /\ scale = Scale1000 /\ Whole(text)
    /\ ratios.net_margin # None /\ ~IsZero(ratios.net_margin)
    /\ ratios = RatiosAt(text, Scale1)

\* C7: parse_number_str(t, s) is absent exactly when parse_number_str(t, 1)
\* is, and otherwise is parse_number_str(t, 1) * s; a token in parentheses
\* is negated before it is multiplied by s.
TimesOf == Table([p \in ValuesAt[Scale1] \X Scales |-> FMul(p[1], p[2])])
\* the token inside the parentheses, normalized
InnerOf ==
    Table([t \in {u \in PoolTokens : Chr(u, 1) = "(" /\ Chr(u, Len(u)) = ")"} |->
              parse_number_str(SubSeq(t, 2, Len(t) - 1), Scale1)])
Linear(t, s) ==
    /\ (ParseOf[<<t, s>>] = None) <=> (ParseOf[<<t, Scale1>>] = None)
    /\ ParseOf[<<t, s>>] # None =>
          ParseOf[<<t, s>>] = TimesOf[<<ParseOf[<<t, Scale1>>], s>>]
    /\ (t \in DOMAIN InnerOf /\ InnerOf[t] # None) =>
          ParseOf[<<t, s>>] = TimesOf[<<FNeg(InnerOf[t]), s>>]
C7_ScaleIsLinear ==
    pc = "compute_ratios" =>
        LET Tokens(toks) ==
                /\ \A i \in DOMAIN toks : Linear(toks[i], scale)
                /\ numbers = SelectSeq([i \in DOMAIN toks |-> ParseOf[<<toks[i], scale>>]],
                                       NotNone)
        IN  Tokens(TokensFrom(text, 1))
\* a text in millions with the token (50), which gives -50,000,000
C7_NegativeInMillions ==
    /\ pc = "compute_ratios"
    /\ scale = Scale1000000
    /\ \E i \in DOMAIN text : "(50)" \in Range(NumsOf[text[i]])
    /\ \E i \in DOMAIN numbers :
          /\ numbers[i] = TimesOf[<<FNeg(InnerOf["(50)"]), Scale1000000>>]
          /\ numbers[i].neg

\* C8 as documented: the keys of the items handed to write_reports are in
\* the order of ALIASES, whatever the order of the lines.
C8_AliasOrder ==
    pc = "done" =>
        \A a, b \in DOMAIN report.financial_items :
            a < b => AliasIndex[report.financial_items[a][1]]
                        < AliasIndex[report.financial_items[b][1]]
\* C8: the keys of the items handed to write_reports are in the order in
\* which they were first given a value: by the first line that gives one, and
\* in the order of ALIASES for the keys of one line.
InsertionOrder(lines, keys, scl) ==
    /\ \A K \in Keys : HitLines(lines, K, scl) # {} <=> \E a \in DOMAIN keys : keys[a] = K
    /\ \A a, b \in DOMAIN keys :
          a < b =>
             LET First(la, lb) ==
                     la < lb \/ (la = lb /\ AliasIndex[keys[a]] < AliasIndex[keys[b]])
             IN  First(Min(HitLines(lines, keys[a], scl)), Min(HitLines(lines, keys[b], scl)))
C8_InsertionOrder ==
    pc = "done" =>
        InsertionOrder(StrippedLines(text), KeysOf(report.financial_items), scale)
\* Net Income was found before Revenue and Revenue was given a second value
\* after it
C8_LaterItemFirst ==
    /\ pc = "done"
    /\ KeysOf(report.financial_items) = <<"Net Income", "Revenue">>
    /\ Cardinality(HitLines(StrippedLines(text), "Revenue", scale)) = 2

\* C9: when the text cannot be had (no file chosen, no such path, a PDF
\* without pdfplumber, a failed read) the scale is not detected, nothing is
\* extracted, computed or flagged and write_reports is not called; a call of
\* write_reports follows a whole read of the text.
Analysis ==
    {"detect_scale", "find_by_aliases", "extract_all_numbers", "compute_ratios",
     "flag_anomalies", "write_reports", "done"}
C9_NoAnalysisWithoutText ==
    /\ pc \in Analysis => read_ok
    /\ report # Unset => read_ok /\ pc = "done"
    /\ ~read_ok =>
          /\ scale = Unset /\ fin = <<>> /\ numbers = <<>>
          /\ ratios = Unset /\ flags = <<>> /\ report = Unset
\* the read of an existing file has failed
C9_ReadFailed ==
    /\ pc = "raised"
    /\ fname # NoName
    /\ ~read_ok /\ report = Unset /\ scale = Unset

\* the alias phrases that hold an alias of another item, with the two items
Compound ==
    Elements({c \in AliasPhrases \X Keys \X Keys :
                 /\ c[2] # c[3]
                 /\ c[1] \in Range(ALIASES[AliasIndex[c[2]]].phrases)
                 /\ \E ph \in Range(ALIASES[AliasIndex[c[3]]].phrases) : Contains(ph, c[1])})
PhrasesIn ==
    Table([ln \in PoolLines |-> Elements({ph \in AliasPhrases : Contains(ph, lower(ln))})])
\* the lines with a number and a phrase that holds an alias of another item
CompoundLines(lines, scl) ==
    {j \in DOMAIN lines :
        /\ RightmostOf[<<lines[j], scl>>] # None
        /\ \E c \in Compound : c[1] \in PhrasesIn[lines[j]]}
\* C10 as documented: after a text whose last line with a number and such a
\* phrase is a line of that phrase ("cost of sales", "current assets",
\* "current liabilities"), the two items are equal.
C10_EqualAfterLastCompoundLine ==
    pc = "extract_all_numbers" =>
        LET Equal(lines, S) ==
                S # {} =>
                   \A c \in Compound :
                       c[1] \in PhrasesIn[lines[Max(S)]] => Get(fin, c[2]) = Get(fin, c[3])
            Scanned(lines) == Equal(lines, CompoundLines(lines, scale))
        IN  Scanned(StrippedLines(text))
\* C10: a line with a number and an alias phrase that holds an alias of
\* another item gives its value to both items; the two items are equal, and
\* have that value, after a text in which that line is the last line to give
\* a value to either item.
SharedValue(lines, f, scl) ==
    \A c \in Compound : \A j \in DOMAIN lines :
        (/\ c[1] \in PhrasesIn[lines[j]]
         /\ RightmostOf[<<lines[j], scl>>] # None
         /\ j = Max(HitLines(lines, c[2], scl) \cup HitLines(lines, c[3], scl) \cup {j}))
        => /\ Get(f, c[2]) = RightmostOf[<<lines[j], scl>>]
           /\ Get(f, c[3]) = RightmostOf[<<lines[j], scl>>]
C10_SharedValue ==
    pc = "extract_all_numbers" => SharedValue(StrippedLines(text), fin, scale)
\* a "cost of sales" line after a revenue line of another value
C10_CostOfSalesLast ==
    /\ pc = "extract_all_numbers"
    /\ Cardinality(HitLines(StrippedLines(text), "Revenue", scale)) = 2
    /\ "cost of sales" \in PhrasesIn[strip(text[Len(text)])]
    /\ Get(fin, "Revenue") = Get(fin, "Cost of Goods Sold")
    /\ Get(fin, "Revenue") = ParseOf[<<"400", scale>>]
====
